---- MODULE Spec2Model ----
(***************************************************************************)
(* Position conversion of internal/lsp/position.go: protocol positions     *)
(* (0-based line, UTF-16 column) <-> token.Pos (file base + byte offset).  *)
(*                                                                         *)
(* A document is a sequence of bytes (0..255).  The token.File of the      *)
(* document is given by its base, its size and its line table; token.Pos   *)
(* values are integers, token.NoPos is 0.                                  *)
(***************************************************************************)
EXTENDS Integers, Sequences, FiniteSets

VARIABLES
  content,  \* f.GetContent(): the bytes of the document
  base,     \* the base of the document's token.File in its file set
  pc,       \* "idle", "lineStart" (inside the loop of lineStart), "returned"
  op,       \* the function called
  arg,      \* its argument
  res,      \* the value it returned
  window,   \* columnOffset: content when its scan loop starts
  line,     \* lineStart: the parameter line
  min,      \* lineStart: min, inclusive
  max       \* lineStart: max, exclusive

vars == <<content, base, pc, op, arg, res, window, line, min, max>>

-----------------------------------------------------------------------------
(* Bounds of the model. *)

MaxRunes == 3
MaxBase == 2
MaxLine == 3
MaxChar == 4

-----------------------------------------------------------------------------
(* Program constants. *)

NoPos == 0
NL == 10
SurrogateMin == 65536
RuneError == 65533
ColumnNotFound == -1

-----------------------------------------------------------------------------
(* Documents: UTF-8 encodings of runes, concatenated. *)

RuneNewline == <<10>>
RuneA == <<97>>
RuneEAcute == <<195, 169>>
RuneSmile == <<240, 159, 153, 130>>

Alphabet == {RuneNewline, RuneA, RuneEAcute, RuneSmile}

RECURSIVE DocsUpTo(_)
DocsUpTo(n) ==
  IF n = 0 THEN {<<>>}
  ELSE LET prev == DocsUpTo(n - 1)
       IN  prev \cup {d \o u : d \in prev, u \in Alphabet}

DocAscii == <<97, 98, 99, 10, 100, 101, 102, 10>>
DocEmoji == <<97, 240, 159, 153, 130, 98, 10>>
DocShort == <<97, 98, 10>>

Docs == DocsUpTo(MaxRunes) \cup {DocAscii, DocEmoji, DocShort}

Position(l, c) == [Line |-> l, Character |-> c]

Positions ==
  {Position(l, c) : l \in -1 .. MaxLine, c \in -1 .. MaxChar}
    \cup {Position(0, 10)}

EndPositions ==
  {p \in Positions : p.Line < 0 /\ p.Character <= 0}
    \cup {Position(0, 0), Position(1, 1)}

-----------------------------------------------------------------------------
(* The token.File of the document. *)

Size == Len(content)

\* Offsets of the first byte of each line: 0, and the offset after every
\* newline that is not the last byte of the file.
LineStarts == {0} \cup {i \in 1 .. Size - 1 : content[i] = NL}

MaxOf(S) == CHOOSE x \in S : \A y \in S : y <= x
MinOf(S) == CHOOSE x \in S : \A y \in S : x <= y

\* tok.Pos(offset)
TokPos(offset) == base + offset

\* tok.Position(pos), for base <= pos <= base + Size: 1-based line and
\* 1-based byte column.
TokPosition(pos) ==
  LET off == pos - base
      before == {s \in LineStarts : s <= off}
  IN  [Line |-> Cardinality(before), Column |-> off - MaxOf(before) + 1]

\* pos.IsValid()
IsValid(pos) == pos # NoPos

-----------------------------------------------------------------------------
(* bytes.IndexByte and utf8.DecodeRune. *)

\* 0-based index of the first b in c, or -1.
IndexByte(c, b) ==
  LET hits == {i \in 1 .. Len(c) : c[i] = b}
  IN  IF hits = {} THEN -1 ELSE MinOf(hits) - 1

\* c[n:]
From(c, n) == SubSeq(c, n + 1, Len(c))

\* c[:n]
UpTo(c, n) == SubSeq(c, 1, n)

IsCont(b) == b >= 128 /\ b <= 191

\* utf8.DecodeRune(c) for len(c) > 0: the rune and its width in bytes;
\* (RuneError, 1) for an invalid or truncated encoding.
DecodeRune(c) ==
  LET b0 == c[1]
      n == Len(c)
      bad == [r |-> RuneError, size |-> 1]
  IN  IF b0 < 128 THEN [r |-> b0, size |-> 1]
      ELSE IF b0 >= 194 /\ b0 <= 223
        THEN IF n >= 2 /\ IsCont(c[2])
               THEN [r |-> (b0 - 192) * 64 + (c[2] - 128), size |-> 2]
               ELSE bad
      ELSE IF b0 >= 224 /\ b0 <= 239
        THEN IF /\ n >= 3
                /\ IsCont(c[2])
                /\ IsCont(c[3])
                /\ (b0 = 224 => c[2] >= 160)
                /\ (b0 = 237 => c[2] <= 159)
               THEN [r |-> (b0 - 224) * 4096 + (c[2] - 128) * 64 + (c[3] - 128),
                     size |-> 3]
               ELSE bad
      ELSE IF b0 >= 240 /\ b0 <= 244
        THEN IF /\ n >= 4
                /\ IsCont(c[2])
                /\ IsCont(c[3])
                /\ IsCont(c[4])
                /\ (b0 = 240 => c[2] >= 144)
                /\ (b0 = 244 => c[2] <= 143)
               THEN [r |-> (b0 - 240) * 262144 + (c[2] - 128) * 4096
                             + (c[3] - 128) * 64 + (c[4] - 128),
                     size |-> 4]
               ELSE bad
      ELSE bad

-----------------------------------------------------------------------------
(* columnOffset *)

\* The loop that drops the lines before pos.Line: the rest of the content,
\* or failed when a newline is missing.
RECURSIVE skipLines(_, _)
skipLines(c, l) ==
  IF Len(c) > 0 /\ l # 0
    THEN LET i == IndexByte(c, NL)
         IN  IF i < 0 THEN [ok |-> FALSE, rest |-> <<>>]
             ELSE skipLines(From(c, i + 1), l - 1)
    ELSE [ok |-> TRUE, rest |-> c]

lineWindow_ExcludeNewline(c) ==
  LET i == IndexByte(c, NL)
  IN  IF i # -1 THEN UpTo(c, i) ELSE c

\* The window the scan decodes: the content up to the first newline, the
\* newline included.
lineWindow(c) ==
  LET i == IndexByte(c, NL)
  IN  IF i # -1 THEN UpTo(c, i + 1) ELSE c

runeUnits_NoSurrogate(r) == 1

\* What one rune adds to char: char++, and char++ again for r >= 0x10000.
runeUnits(r) == IF r >= SurrogateMin THEN 2 ELSE 1

columnReached_AtOrPast(char, character) == char >= character

\* char > int(pos.Character)
columnReached(char, character) == char > character

\* The scan loop over the window.
RECURSIVE scanColumn(_, _, _, _)
scanColumn(c, char, offset, character) ==
  IF Len(c) > 0
    THEN LET d == DecodeRune(c)
             char1 == char + runeUnits(d.r)
         IN  IF columnReached(char1, character) THEN offset
             ELSE scanColumn(From(c, d.size), char1, offset + d.size, character)
    ELSE ColumnNotFound

\* The local variable content when the scan loop starts.
scanWindow(c, pos) ==
  LET s == skipLines(c, pos.Line)
  IN  IF s.ok THEN lineWindow(s.rest) ELSE <<>>

columnOffset(c, pos) ==
  LET s == skipLines(c, pos.Line)
  IN  IF ~s.ok THEN ColumnNotFound
      ELSE scanColumn(lineWindow(s.rest), 0, 0, pos.Character)

-----------------------------------------------------------------------------
(* lineStart *)

lineStartOf_NoColumn(pos, posn) == pos

\* return pos - (token.Pos(posn.Column) - 1)
lineStartOf(pos, posn) == pos - (posn.Column - 1)

bracketExhausted_Late(mn, mx) == mn >= mx

\* min+1 >= max
bracketExhausted(mn, mx) == mn + 1 >= mx

\* One iteration of the binary search for line l with bracket [mn, mx).
lineStartIter(l, mn, mx) ==
  LET offset == (mn + mx) \div 2
      pos == TokPos(offset)
      posn == TokPosition(pos)
  IN  IF posn.Line = l
        THEN [returned |-> TRUE, ret |-> lineStartOf(pos, posn), min |-> mn, max |-> mx]
      ELSE IF bracketExhausted(mn, mx)
        THEN [returned |-> TRUE, ret |-> NoPos, min |-> mn, max |-> mx]
      ELSE IF posn.Line < l
        THEN [returned |-> FALSE, ret |-> NoPos, min |-> offset, max |-> mx]
      ELSE [returned |-> FALSE, ret |-> NoPos, min |-> mn, max |-> offset]

RECURSIVE lineStartLoop(_, _, _)
lineStartLoop(l, mn, mx) ==
  LET it == lineStartIter(l, mn, mx)
  IN  IF it.returned THEN it.ret ELSE lineStartLoop(l, it.min, it.max)

lineStart(l) == lineStartLoop(l, 0, Size)

-----------------------------------------------------------------------------
(* The conversions. *)

fromProtocolPosition(pos) ==
  lineStart(pos.Line + 1) + columnOffset(content, pos)

toProtocolPosition(pos) ==
  IF ~IsValid(pos) THEN Position(-1, -1)
  ELSE LET p == TokPosition(pos)
       IN  Position(p.Line - 1, p.Column - 1)

fromTokenPosition(pos) == lineStart(pos.Line) + (pos.Column - 1)

fromProtocolRange(r) ==
  LET start == fromProtocolPosition(r.Start)
  IN  [Start |-> start,
       End |-> IF r.End = r.Start THEN start
               ELSE IF r.End.Line < 0 THEN NoPos
               ELSE fromProtocolPosition(r.End)]

-----------------------------------------------------------------------------
(* State machine. *)

Init ==
  /\ content \in Docs
  /\ base \in 1 .. MaxBase
  /\ pc = "idle"
  /\ op = "none"
  /\ arg = 0
  /\ res = 0
  /\ window = <<>>
  /\ line = 0
  /\ min = 0
  /\ max = 0

\* A call made on the idle document runs to its return statement.
Return(o, a, r) ==
  /\ pc = "idle"
  /\ pc' = "returned"
  /\ op' = o
  /\ arg' = a
  /\ res' = r
  /\ UNCHANGED <<content, base, line, min, max>>

ColumnOffset(pos) ==
  /\ Return("columnOffset", pos, columnOffset(content, pos))
  /\ window' = scanWindow(content, pos)

FromProtocolPosition(pos) ==
  /\ Return("fromProtocolPosition", pos, fromProtocolPosition(pos))
  /\ UNCHANGED window

ToProtocolPosition(pos) ==
  /\ Return("toProtocolPosition", pos, toProtocolPosition(pos))
  /\ UNCHANGED window

FromTokenPosition(pos) ==
  /\ Return("fromTokenPosition", pos, fromTokenPosition(pos))
  /\ UNCHANGED window

FromProtocolRange(r) ==
  /\ Return("fromProtocolRange", r, fromProtocolRange(r))
  /\ UNCHANGED window

\* lineStart is entered: min := 0, max := tok.Size().
LineStartEnter(l) ==
  /\ pc = "idle"
  /\ pc' = "lineStart"
  /\ op' = "lineStart"
  /\ arg' = l
  /\ res' = NoPos
  /\ line' = l
  /\ min' = 0
  /\ max' = Size
  /\ UNCHANGED <<content, base, window>>

\* One iteration of the for loop of lineStart.
LineStartIterate ==
  /\ pc = "lineStart"
  /\ LET it == lineStartIter(line, min, max)
     IN  /\ pc' = IF it.returned THEN "returned" ELSE "lineStart"
         /\ res' = it.ret
         /\ min' = it.min
         /\ max' = it.max
  /\ UNCHANGED <<content, base, op, arg, window, line>>

ValidPos == {NoPos} \cup {TokPos(o) : o \in 0 .. Size}

TokenPositions ==
  {[Line |-> l, Column |-> c] : l \in 0 .. MaxLine + 1, c \in 1 .. MaxChar + 1}

LineNumbers == -1 .. MaxLine + 2

Next ==
  \/ \E pos \in Positions : ColumnOffset(pos)
  \/ \E pos \in Positions : FromProtocolPosition(pos)
  \/ \E pos \in ValidPos : ToProtocolPosition(pos)
  \/ \E pos \in TokenPositions : FromTokenPosition(pos)
  \/ \E s \in Positions : \E e \in EndPositions \cup {s} :
       FromProtocolRange([Start |-> s, End |-> e])
  \/ \E l \in LineNumbers : LineStartEnter(l)
  \/ LineStartIterate

Spec == Init /\ [][Next]_vars

NextLineStart ==
  \/ \E l \in LineNumbers : LineStartEnter(l)
  \/ LineStartIterate

SpecLineStart == Init /\ [][NextLineStart]_vars /\ WF_vars(LineStartIterate)

-----------------------------------------------------------------------------
(* The document as the properties below describe it: its lines, told by    *)
(* the newline bytes, and the runes and UTF-16 units of a byte string.     *)

LineCount == Cardinality(LineStarts)

HasLine(l) == l >= 0 /\ l < LineCount

\* Offset of the first byte of 0-based line l.
LineFirst(l) ==
  CHOOSE s \in LineStarts : Cardinality({t \in LineStarts : t < s}) = l

NewlinesFrom(o) == {i - 1 : i \in {j \in 1 .. Size : j - 1 >= o /\ content[j] = NL}}

Terminated(l) == NewlinesFrom(LineFirst(l)) # {}

\* Offset just after the last byte of line l that is not its newline.
LineLast(l) ==
  IF Terminated(l) THEN MinOf(NewlinesFrom(LineFirst(l))) ELSE Size

\* The bytes of line l, without its newline.
LineText(l) == SubSeq(content, LineFirst(l) + 1, LineLast(l))

RECURSIVE Runes(_)
Runes(c) ==
  IF Len(c) = 0 THEN <<>>
  ELSE LET d == DecodeRune(c) IN <<d>> \o Runes(From(c, d.size))

Utf16Units(r) == IF r < 65536 THEN 1 ELSE 2

RECURSIVE UnitsOf(_, _)
UnitsOf(rs, k) == IF k = 0 THEN 0 ELSE UnitsOf(rs, k - 1) + Utf16Units(rs[k].r)

RECURSIVE BytesOf(_, _)
BytesOf(rs, k) == IF k = 0 THEN 0 ELSE BytesOf(rs, k - 1) + rs[k].size

Utf16Len(c) == UnitsOf(Runes(c), Len(Runes(c)))

\* Offsets at which a rune of the document starts.
RECURSIVE RuneStarts(_, _)
RuneStarts(c, o) ==
  IF Len(c) = 0 THEN {}
  ELSE {o} \cup RuneStarts(From(c, DecodeRune(c).size), o + DecodeRune(c).size)

Returned(o) == pc = "returned" /\ op = o

\* token.Pos values of the document: its bytes and its end.
DocPos == {TokPos(o) : o \in 0 .. Size}

-----------------------------------------------------------------------------
(* C1: Round-trip.  For every offset o of a byte of the document that      *)
(* starts a rune, fromProtocolPosition(toProtocolPosition(o)) = o, on      *)
(* lines with multi-byte runes as on ASCII-only lines.                     *)
C1_RoundTrip ==
  Returned("fromProtocolPosition") =>
    \A o \in RuneStarts(content, 0) :
      arg = toProtocolPosition(TokPos(o)) => res = TokPos(o)

(* C2: ColumnOutOfRange.  For an existing line and a column greater than   *)
(* the line's UTF-16 length, the result of fromProtocolPosition is not a   *)
(* position of the document.                                               *)
C2_ColumnOutOfRange ==
  (/\ Returned("fromProtocolPosition")
   /\ HasLine(arg.Line)
   /\ arg.Character > Utf16Len(LineText(arg.Line)))
    => res \notin DocPos

(* C3: NotFound propagation.  When the requested line is not a line of the *)
(* document, fromProtocolPosition and fromTokenPosition return token.NoPos *)
(* for every column.                                                       *)
C3_NotFoundPropagates ==
  /\ (Returned("fromProtocolPosition") /\ ~HasLine(arg.Line)) => res = NoPos
  /\ (Returned("fromTokenPosition") /\ ~HasLine(arg.Line - 1)) => res = NoPos

(* C4: Sentinel range end.  For every protocol range with end.line < 0,    *)
(* whatever its start, fromProtocolRange returns End = token.NoPos.        *)
C4_SentinelEnd ==
  (Returned("fromProtocolRange") /\ arg.End.Line < 0) => res.End = NoPos

(* C5: Line index correctness.  lineStart(n) is the position of the        *)
(* smallest offset whose resolved line is n when there is one, and         *)
(* token.NoPos when n is below 1 or above the line count; line 1 of a      *)
(* non-empty document starts at offset 0.                                  *)
C5_LineIndex ==
  Returned("lineStart") =>
    LET S == {o \in 0 .. Size : TokPosition(TokPos(o)).Line = arg}
    IN  /\ res = IF S = {} THEN NoPos ELSE TokPos(MinOf(S))
        /\ (arg < 1 \/ arg > LineCount) => res = NoPos
        /\ (arg = 1 /\ Size > 0) => res = TokPos(0)

\* lineStart narrowed the bracket and returned the start of a last line
\* that is a single byte.
C5_Witness ==
  /\ Returned("lineStart")
  /\ arg = LineCount
  /\ arg >= 2
  /\ res = TokPos(Size - 1)
  /\ min > 0

(* C6: Surrogate accounting.  For an in-range column c, columnOffset       *)
(* returns the byte length of the runes before the first rune at which the *)
(* count of UTF-16 units (1 below U+10000, 2 from U+10000) exceeds c.  On  *)
(* a line of one astral rune then one ASCII rune, column 2 maps to the     *)
(* byte length of the astral rune and column 1 to the start of that rune.  *)
C6_SurrogateAccounting ==
  Returned("columnOffset") =>
    LET rs == Runes(window)
        c == arg.Character
        hit == {k \in 1 .. Len(rs) : UnitsOf(rs, k) > c}
    IN  /\ hit # {} => res = BytesOf(rs, MinOf(hit) - 1)
        /\ (/\ Len(rs) >= 2
            /\ rs[1].r >= 65536
            /\ rs[2].r < 128
            /\ rs[2].r # NL)
             => /\ c = 2 => res = rs[1].size
                /\ c = 1 => res = 0

\* Column 2 on a line that is an astral rune followed by an ASCII rune.
C6_Witness ==
  /\ Returned("columnOffset")
  /\ Len(window) >= 5
  /\ DecodeRune(window).r >= 65536
  /\ window[5] = 97
  /\ arg.Character = 2
  /\ res = 4

(* C7 as stated: in "a\U0001F642b\n", position {0, 3} converts to byte     *)
(* offset 6 and position {0, 1} to byte offset 1.                          *)
C7_Original ==
  (Returned("fromProtocolPosition") /\ content = DocEmoji) =>
    /\ arg = Position(0, 3) => res - base = 6
    /\ arg = Position(0, 1) => res - base = 1

(* C7 amended: in "a\U0001F642b\n", position {0, 3} converts to byte       *)
(* offset 5, the offset of 'b', and position {0, 1} to byte offset 1, the  *)
(* start of the emoji.                                                     *)
C7_MultiByteScenario ==
  (Returned("fromProtocolPosition") /\ content = DocEmoji) =>
    /\ arg = Position(0, 3) => (res - base = 5 /\ content[res - base + 1] = 98)
    /\ arg = Position(0, 1) => (res - base = 1 /\ content[res - base + 1] = 240)

C7_Witness ==
  /\ Returned("fromProtocolPosition")
  /\ content = DocEmoji
  /\ arg = Position(0, 3)
  /\ res = TokPos(5)

(* C8: Sentinel position round-trips.  toProtocolPosition(token.NoPos) is  *)
(* {-1, -1}, and fromProtocolPosition({-1, -1}) is token.NoPos.            *)
C8_SentinelRoundTrip ==
  /\ (Returned("toProtocolPosition") /\ arg = NoPos) => res = Position(-1, -1)
  /\ (Returned("fromProtocolPosition") /\ arg = Position(-1, -1)) => res = NoPos

(* C9 as stated: the window columnOffset scans is the addressed line       *)
(* without its newline byte, so a column equal to the line's UTF-16 length *)
(* exhausts the window whether or not the line ends in a newline.          *)
C9_Original ==
  (Returned("columnOffset") /\ HasLine(arg.Line)) =>
    /\ window = LineText(arg.Line)
    /\ arg.Character = Utf16Len(LineText(arg.Line)) => res = ColumnNotFound

(* C9 amended: the window columnOffset scans is the addressed line up to   *)
(* and including its terminating newline byte, and no byte of the          *)
(* following line.  A column equal to the line's UTF-16 length maps to the *)
(* offset of the newline byte on a newline-terminated line and exhausts    *)
(* the window on a final line without a newline; a greater column          *)
(* exhausts the window on both.                                            *)
C9_ScanWindow ==
  (Returned("columnOffset") /\ HasLine(arg.Line)) =>
    LET text == LineText(arg.Line)
        nl == IF Terminated(arg.Line) THEN <<NL>> ELSE <<>>
    IN  /\ window = text \o nl
        /\ arg.Character = Utf16Len(text) =>
             res = IF Terminated(arg.Line) THEN Len(text) ELSE ColumnNotFound
        /\ arg.Character > Utf16Len(text) => res = ColumnNotFound

\* A column equal to the length of a non-empty newline-terminated line that
\* another line follows.
C9_Witness ==
  /\ Returned("columnOffset")
  /\ HasLine(arg.Line)
  /\ HasLine(arg.Line + 1)
  /\ LineText(arg.Line) # <<>>
  /\ arg.Character = Utf16Len(LineText(arg.Line))
  /\ res = Len(LineText(arg.Line))

\* In an iteration that does not return, the bracket [min, max) strictly
\* shrinks.
C10_Shrinks ==
  [][(pc = "lineStart" /\ pc' = "lineStart")
       => (min <= min' /\ max' <= max /\ max' - min' < max - min)]_vars

\* When the bracket cannot shrink and the probed line is not the requested
\* one, the loop returns token.NoPos.
C10_NotFound ==
  [][(/\ pc = "lineStart"
      /\ min + 1 >= max
      /\ TokPosition(TokPos((min + max) \div 2)).Line # line)
       => (pc' = "returned" /\ res' = NoPos)]_vars

C10_Terminates == (pc = "lineStart") ~> (pc = "returned")

(* C10: Line lookup terminates.  For every document size and every         *)
(* requested line number the loop of lineStart eventually returns; every   *)
(* iteration that does not return strictly shrinks the bracket, and when   *)
(* the bracket cannot shrink without a match the result is token.NoPos.    *)
C10_LineLookupTerminates == C10_Shrinks /\ C10_NotFound /\ C10_Terminates

\* The search for a line past the last one narrowed the bracket to one
\* offset of a document of several lines and ended NotFound.
C10_Witness ==
  /\ Returned("lineStart")
  /\ res = NoPos
  /\ line > LineCount
  /\ LineCount >= 2
  /\ min > 1
  /\ min + 1 >= max

====
